---- MODULE Spec2Model ----
(***************************************************************************)
(* Model of compare_speedup.py: the run analysis pipeline                  *)
(*   summarize_one_run -> summarize_many -> aggregate_by_variant_palette / *)
(*   aggregate_by_variant -> compute_speedup_by_variant -> main.           *)
(*                                                                         *)
(* Numbers.  The program computes in IEEE doubles.  A number is modelled   *)
(* as a pair <<n, d>>: d > 0 is the exact rational n/d in lowest terms,    *)
(* <<0,0>> is NaN (pandas' missing value), <<1,0>> is +inf and <<-1,0>> is *)
(* -inf.  Rounding is not modelled.                                        *)
(*                                                                         *)
(* Tables.  A DataFrame is a sequence of records (its rows, in order); the *)
(* empty DataFrame is << >>.  Of the raw columns the model carries time_s, *)
(* fps_inst, n, threads and palette; of the RunSummary metrics it carries  *)
(* fps_inst_mean, fps_inst_median, frame_ms_mean, frame_ms_median,         *)
(* throughput_particles_per_s and n (the quantiles, the smoothed-FPS       *)
(* statistics and the remaining pass-through columns are reduced in the    *)
(* same way and are left out).                                             *)
(***************************************************************************)
EXTENDS Integers, Sequences, FiniteSets, TLC

VARIABLES
    pc,         \* position of the driver
    csv,        \* the file handed to summarize_one_run
    variant,    \* the variant tag handed to summarize_one_run
    summary,    \* what summarize_one_run returned
    gen,        \* how many times the input was replaced by its warmup-trimmed copy
    seq_csvs,   \* main: find_csvs(SEQ_DIR)
    par_csvs,   \* main: find_csvs(PAR_DIR)
    seq_runs,   \* main: summarize_many(seq_csvs, "sequential")
    par_runs,   \* main: summarize_many(par_csvs, "parallel")
    all_runs,   \* main: pd.concat([seq_runs, par_runs])
    agg_pal,    \* main: aggregate_by_variant_palette(all_runs)
    agg_var,    \* main: aggregate_by_variant(all_runs)
    sp_var,     \* main: compute_speedup_by_variant(agg_var)
    exc,        \* the exception that escaped ("" when none did)
    console,    \* what was printed, in order
    written     \* the CSV reports written, in order

callVars == <<csv, variant, summary, gen>>
inputVars == <<seq_csvs, par_csvs>>
runVars == <<seq_runs, par_runs, all_runs>>
aggVars == <<agg_pal, agg_var>>
outVars == <<sp_var, exc, console, written>>

vars == <<pc, callVars, inputVars, runVars, aggVars, outVars>>

----------------------------------------------------------------------------
(* Bounds of the model *)

MaxRows == 3        \* rows of a raw table handed to summarize_one_run
MaxGen == 1         \* times a table is stored back warmup-trimmed and summarized again
MaxFiles == 3       \* CSV files found by main, both directories together
MaxRuns == 3        \* rows of a run table handed to the aggregators directly

(* Program constants *)

WARMUP_SECONDS == 1
OUT_DIR == "analysis_output"

----------------------------------------------------------------------------
(* Numbers *)

NaN == <<0, 0>>
Inf == <<1, 0>>
NegInf == <<-1, 0>>

Num(i) == <<i, 1>>

NotNa(x) == x # NaN
IsFinite(x) == x[2] > 0

Abs(i) == IF i < 0 THEN -i ELSE i

RECURSIVE GCD(_, _)
GCD(a, b) == IF b = 0 THEN a ELSE GCD(b, a % b)

\* n/d in lowest terms, d # 0
Norm(n, d) ==
    LET g == GCD(Abs(n), Abs(d))
        s == IF d < 0 THEN -1 ELSE 1
    IN  <<(s * n) \div g, (s * d) \div g>>

\* a < b as IEEE compares: false when either side is NaN
Lt(a, b) ==
    /\ NotNa(a)
    /\ NotNa(b)
    /\ IF IsFinite(a) /\ IsFinite(b)
       THEN a[1] * b[2] < b[1] * a[2]
       ELSE (a = NegInf /\ b # NegInf) \/ (b = Inf /\ a # Inf)

Ge(a, b) == NotNa(a) /\ NotNa(b) /\ ~Lt(a, b)
Gt(a, b) == Lt(b, a)

\* IEEE arithmetic: NaN propagates, an infinity absorbs every finite operand,
\* inf - inf, 0 * inf and inf / inf are NaN, finite / inf is 0.  Every division
\* of the program is guarded by a test that its divisor is not zero.
Neg(a) == <<-a[1], a[2]>>

Sign(a) == IF a[1] > 0 THEN 1 ELSE IF a[1] < 0 THEN -1 ELSE 0

Add(a, b) ==
    IF a = NaN \/ b = NaN THEN NaN
    ELSE IF IsFinite(a) /\ IsFinite(b)
         THEN Norm(a[1] * b[2] + b[1] * a[2], a[2] * b[2])
    ELSE IF IsFinite(a) THEN b
    ELSE IF IsFinite(b) THEN a
    ELSE IF a = b THEN a ELSE NaN
Sub(a, b) == Add(a, Neg(b))
Mul(a, b) ==
    IF a = NaN \/ b = NaN THEN NaN
    ELSE IF IsFinite(a) /\ IsFinite(b) THEN Norm(a[1] * b[1], a[2] * b[2])
    ELSE IF Sign(a) * Sign(b) = 0 THEN NaN
    ELSE <<Sign(a) * Sign(b), 0>>
Div(a, b) ==
    IF a = NaN \/ b = NaN THEN NaN
    ELSE IF IsFinite(a) /\ IsFinite(b)
         THEN IF b[1] # 0 THEN Norm(a[1] * b[2], a[2] * b[1]) ELSE NaN
    ELSE IF IsFinite(a) THEN Num(0)
    ELSE IF IsFinite(b) THEN IF b[1] # 0 THEN <<Sign(a) * Sign(b), 0>> ELSE NaN
    ELSE NaN

----------------------------------------------------------------------------
(* Series helpers (pandas Series as sequences) *)

RECURSIVE SelectIdx(_, _, _)
\* the indices i of 1..n, ascending from i, for which keep[i] holds
SelectIdx(keep, i, n) ==
    IF i > n THEN << >>
    ELSE IF keep[i] THEN <<i>> \o SelectIdx(keep, i + 1, n)
         ELSE SelectIdx(keep, i + 1, n)

\* df[mask]: the rows whose mask entry is TRUE, in order
Filter(df, mask) ==
    LET idx == SelectIdx(mask, 1, Len(df))
    IN  [k \in 1..Len(idx) |-> df[idx[k]]]

Column(df, c) == [i \in 1..Len(df) |-> df[i][c]]

DropNa(s) == Filter(s, [i \in 1..Len(s) |-> NotNa(s[i])])

RECURSIVE Insert(_, _)
\* x inserted into the ascending sequence s
Insert(x, s) ==
    IF s = << >> THEN <<x>>
    ELSE IF Lt(x, Head(s)) THEN <<x>> \o s
         ELSE <<Head(s)>> \o Insert(x, Tail(s))

RECURSIVE SortAsc(_)
SortAsc(s) == IF s = << >> THEN << >> ELSE Insert(Head(s), SortAsc(Tail(s)))

RECURSIVE SumSeq(_)
SumSeq(s) == IF s = << >> THEN Num(0) ELSE Add(Head(s), SumSeq(Tail(s)))

\* Series.min / Series.max: missing values skipped, NaN when none is left
SeriesMin(s) == LET v == SortAsc(DropNa(s)) IN IF v = << >> THEN NaN ELSE v[1]
SeriesMax(s) == LET v == SortAsc(DropNa(s)) IN IF v = << >> THEN NaN ELSE v[Len(v)]

\* Series.mean: missing values skipped
SeriesMean(s) ==
    LET v == DropNa(s) IN IF v = << >> THEN NaN ELSE Div(SumSeq(v), Num(Len(v)))

\* Series.median: missing values skipped; the mean of the two middle values
\* when their number is even
SeriesMedian(s) ==
    LET v == SortAsc(DropNa(s))
        k == Len(v)
    IN  IF k = 0 THEN NaN
        ELSE IF k % 2 = 1 THEN v[(k + 1) \div 2]
             ELSE Div(Add(v[k \div 2], v[k \div 2 + 1]), Num(2))

----------------------------------------------------------------------------
(* Files and paths *)

SEQ_DIR == "secuencial/runs"
PAR_DIR == "paralelo/runs"

\* A path is <<directory, file name>>; os.path.basename keeps the file name.
Basename(path) == path[2]

\* The lower-cased file names that contain "neon", and those that contain "ocean"
\* (the substring tests of infer_palette_from_df_or_name, tabulated over FileNames).
FileNames == <<"a_neon.csv", "b_OCEAN.csv", "c.csv">>
NamesWithNeon == {"a_neon.csv"}
NamesWithOcean == {"b_OCEAN.csv"}

\* The missing value of the palette column (NaN in a column of strings)
NoPalette == "<nan>"

\* str(v).strip().lower(), tabulated over the palette cells of the model
StripLower(v) ==
    CASE v = "Neon " -> "neon"
      [] v = "ocean" -> "ocean"
      [] v = "  " -> ""
      [] OTHER -> v

AllColumns == {"time_s", "fps_inst", "n", "threads", "palette"}

MissingOf(c) == IF c = "palette" THEN NoPalette ELSE NaN

----------------------------------------------------------------------------
(* summarize_one_run *)

\* lines 34-36: every expected column the file lacks is added, entirely missing
EnsureColumns(df) ==
    [i \in 1..Len(df) |->
        [c \in AllColumns |-> IF c \in DOMAIN df[i] THEN df[i][c] ELSE MissingOf(c)]]

\* the mutation of WarmupTrim that keeps only the rows strictly after t0 + WARMUP_SECONDS
WarmupTrimStrict(df) ==
    LET time == Column(df, "time_s")
    IN  IF \E i \in 1..Len(df) : NotNa(time[i])
        THEN LET t0 == SeriesMin(time)
             IN  Filter(df, [i \in 1..Len(df) |->
                                Gt(time[i], Add(t0, Num(WARMUP_SECONDS)))])
        ELSE df

\* the mutation of WarmupTrim that measures the warmup window from time 0, not
\* from the least elapsed time of the table
WarmupTrimAbsolute(df) ==
    LET time == Column(df, "time_s")
    IN  IF \E i \in 1..Len(df) : NotNa(time[i])
        THEN Filter(df, [i \in 1..Len(df) |-> Ge(time[i], Num(WARMUP_SECONDS))])
        ELSE df

\* lines 38-40: when any elapsed time is present, keep the rows with
\* time_s >= min(time_s) + WARMUP_SECONDS
WarmupTrim(df) ==
    LET time == Column(df, "time_s")
    IN  IF \E i \in 1..Len(df) : NotNa(time[i])
        THEN LET t0 == SeriesMin(time)
             IN  Filter(df, [i \in 1..Len(df) |->
                                Ge(time[i], Add(t0, Num(WARMUP_SECONDS)))])
        ELSE df

\* line 42: +inf and -inf become missing, in every column
ReplaceInf(df) ==
    [i \in 1..Len(df) |->
        [c \in AllColumns |->
            IF c # "palette" /\ df[i][c] \in {Inf, NegInf} THEN NaN ELSE df[i][c]]]

\* the mutation of PositiveFps that also keeps the rows whose fps_inst is zero
PositiveFpsOrZero(df) ==
    Filter(df, [i \in 1..Len(df) |->
                   NotNa(df[i].fps_inst) /\ Ge(df[i].fps_inst, Num(0))])

\* lines 43-44: keep the rows whose fps_inst is present and > 0
PositiveFps(df) ==
    Filter(df, [i \in 1..Len(df) |->
                   NotNa(df[i].fps_inst) /\ Gt(df[i].fps_inst, Num(0))])

\* lines 34-44: the cleaned table
Clean(df) == PositiveFps(ReplaceInf(WarmupTrim(EnsureColumns(df))))

\* lines 16-23
infer_palette_from_df_or_name(df, path) ==
    LET present == Filter(df, [i \in 1..Len(df) |-> df[i].palette # NoPalette])
        v == IF present = << >> THEN "" ELSE StripLower(present[Len(present)].palette)
        name == Basename(path)
    IN  IF v # "" THEN v
        ELSE IF name \in NamesWithNeon THEN "neon"
        ELSE IF name \in NamesWithOcean THEN "ocean"
        ELSE "unknown"

\* lines 29-85.  A file is [path, readable, cause, rows]: pd.read_csv raises
\* with `cause` when the file is not readable, and returns `rows` otherwise.
summarize_one_run(file, var) ==
    IF ~file.readable
    THEN [ok |-> FALSE, path |-> file.path, error |-> <<"read_error", file.cause>>]
    ELSE
    LET df == Clean(file.rows)
    IN  IF df = << >>
        THEN [ok |-> FALSE, path |-> file.path, error |-> <<"empty_after_clean">>]
        ELSE
        LET last == df[Len(df)]
            fps == Column(df, "fps_inst")
            time == Column(df, "time_s")
            frame_ms == [i \in 1..Len(fps) |->
                            IF fps[i] = Num(0) THEN NaN ELSE Div(Num(1000), fps[i])]
        IN  [ok |-> TRUE,
             path |-> file.path,
             file |-> Basename(file.path),
             variant |-> var,
             palette |-> infer_palette_from_df_or_name(df, file.path),
             rows |-> Len(df),
             duration_s |-> IF \E i \in 1..Len(df) : NotNa(time[i])
                            THEN Sub(SeriesMax(time), SeriesMin(time))
                            ELSE NaN,
             fps_inst_mean |-> SeriesMean(fps),
             fps_inst_median |-> SeriesMedian(fps),
             frame_ms_mean |-> SeriesMean(frame_ms),
             frame_ms_median |-> SeriesMedian(frame_ms),
             throughput_particles_per_s |->
                 Mul(SeriesMedian(fps), IF NotNa(last.n) THEN last.n ELSE Num(0)),
             n |-> last.n,
             threads |-> last.threads]

----------------------------------------------------------------------------
(* summarize_many *)

\* lines 87-92: what summarize_many returns, DataFrame(ok)
summarize_many(csvs, var) ==
    LET rows == [i \in 1..Len(csvs) |-> summarize_one_run(csvs[i], var)]
    IN  Filter(rows, [i \in 1..Len(rows) |-> rows[i].ok])

\* lines 90-91: what summarize_many prints: nothing when no run was skipped,
\* else one line with the base names of the skipped files
summarize_many_prints(csvs, var) ==
    LET rows == [i \in 1..Len(csvs) |-> summarize_one_run(csvs[i], var)]
        bad == Filter(rows, [i \in 1..Len(rows) |-> ~rows[i].ok])
    IN  IF bad = << >> THEN << >>
        ELSE <<[line |-> "Ignorando",
                files |-> [i \in 1..Len(bad) |-> Basename(bad[i].path)]]>>

----------------------------------------------------------------------------
(* aggregate_by_variant_palette, aggregate_by_variant *)

\* The strings of the model in Python's string order (groupby sorts its keys)
StrOrder == <<"gpu", "neon", "ocean", "parallel", "sequential", "unknown">>
StrRank(x) == CHOOSE i \in 1..Len(StrOrder) : StrOrder[i] = x

RECURSIVE KeyLt(_, _)
\* tuples of strings, compared as Python compares tuples
KeyLt(a, b) ==
    IF a = << >> \/ b = << >> THEN FALSE
    ELSE IF StrRank(Head(a)) # StrRank(Head(b)) THEN StrRank(Head(a)) < StrRank(Head(b))
         ELSE KeyLt(Tail(a), Tail(b))

KeyOf(row, keys) == [k \in 1..Len(keys) |-> row[keys[k]]]

RECURSIVE SortedKeys(_)
\* the keys of the set S, ascending
SortedKeys(S) ==
    IF S = {} THEN << >>
    ELSE LET m == CHOOSE k \in S : \A o \in S : ~KeyLt(o, k)
         IN  <<m>> \o SortedKeys(S \ {m})

\* the rows of the group of `key`, in the order of df
GroupRows(df, keys, key) == Filter(df, [i \in 1..Len(df) |-> KeyOf(df[i], keys) = key])

RECURSIVE CounterOf(_, _)
\* collections.Counter(s): <<value, count>> pairs in order of first insertion;
\* c is the counter so far
CounterOf(s, c) ==
    IF s = << >> THEN c
    ELSE LET x == Head(s)
             c2 == IF \E j \in 1..Len(c) : c[j][1] = x
                   THEN [j \in 1..Len(c) |->
                            IF c[j][1] = x THEN <<x, c[j][2] + 1>> ELSE c[j]]
                   ELSE Append(c, <<x, 1>>)
         IN  CounterOf(Tail(s), c2)

RECURSIVE FirstMax(_, _)
\* max(c, key = count): the first pair with the greatest count; best is the
\* greatest so far
FirstMax(c, best) ==
    IF c = << >> THEN best
    ELSE FirstMax(Tail(c), IF Head(c)[2] > best[2] THEN Head(c) ELSE best)

\* lines 96-98 / 110-112: Counter(s.dropna()).most_common(1)[0][0]
mode_or_nan(s) ==
    LET v == DropNa(s)
        c == CounterOf(v, << >>)
    IN  IF v = << >> THEN NaN ELSE FirstMax(Tail(c), Head(c))[1]

\* the metrics the aggregators reduce (lines 100-102, 113-115), as far as the
\* model carries them
Metrics == {"fps_inst_median", "fps_inst_mean", "frame_ms_median", "frame_ms_mean",
            "throughput_particles_per_s", "n"}

\* the mutation of GroupMedian that takes the mean of the group
GroupMean(g, m) == SeriesMean(Column(g, m))

\* the mutation of GroupMedian that takes the middle value without sorting
GroupMiddle(g, m) ==
    LET v == DropNa(Column(g, m))
    IN  IF v = << >> THEN NaN ELSE v[(Len(v) + 1) \div 2]

\* .agg({m: "median"}) on one group
GroupMedian(g, m) == SeriesMedian(Column(g, m))

\* lines 103-105 / 116-118 for one group g of key `key`
AggRow(g, keys, key) ==
    [c \in {keys[k] : k \in 1..Len(keys)} \cup Metrics \cup {"runs", "threads_mode"} |->
        IF c \in Metrics THEN GroupMedian(g, c)
        ELSE IF c = "runs" THEN Len(g)
        ELSE IF c = "threads_mode" THEN mode_or_nan(Column(g, "threads"))
        ELSE key[CHOOSE k \in 1..Len(keys) : keys[k] = c]]

\* groupby(keys) and the three reductions: one row per key, keys ascending
AggregateBy(df, keys) ==
    LET ks == SortedKeys({KeyOf(df[i], keys) : i \in 1..Len(df)})
    IN  [j \in 1..Len(ks) |-> AggRow(GroupRows(df, keys, ks[j]), keys, ks[j])]

\* lines 94-106
aggregate_by_variant_palette(df) ==
    IF df = << >> THEN << >> ELSE AggregateBy(df, <<"variant", "palette">>)

\* lines 108-119
aggregate_by_variant(df) ==
    IF df = << >> THEN << >> ELSE AggregateBy(df, <<"variant">>)

----------------------------------------------------------------------------
(* compute_speedup_by_variant *)

\* bool(float(x)): every float but 0.0 is true, NaN included
Truthy(x) == x # Num(0)

\* a / b on Python floats raises ZeroDivisionError when b is 0.0
PyDivRaises(b) == b = Num(0)

\* the mutation of SpeedupGuard that lets every aggregate through
SpeedupGuardOff(agg) == TRUE

\* line 122: the aggregate is not empty and its variant keys are exactly the two
SpeedupGuard(agg) ==
    agg # << >> /\ {agg[i].variant : i \in 1..Len(agg)} = {"sequential", "parallel"}

\* the mutation of Amdahl that divides by the thread count
AmdahlByThreads(p, sp) == Div(Sub(Div(p, sp), Num(1)), p)

\* line 132: (p/sp - 1.0)/(p - 1.0)
Amdahl(p, sp) == Div(Sub(Div(p, sp), Num(1)), Sub(p, Num(1)))

\* lines 121-139.  The result is [exc, df]: exc names the exception that escapes
\* ("" when none does), df is the table returned.
compute_speedup_by_variant(agg) ==
    IF ~SpeedupGuard(agg) THEN [exc |-> "", df |-> << >>]
    ELSE
    LET seqsel == Filter(agg, [i \in 1..Len(agg) |-> agg[i].variant = "sequential"])
        parsel == Filter(agg, [i \in 1..Len(agg) |-> agg[i].variant = "parallel"])
    IN  IF seqsel = << >> \/ parsel = << >> THEN [exc |-> "IndexError", df |-> << >>]
        ELSE
        LET seq == seqsel[1].fps_inst_median
            par == parsel[1].fps_inst_median
            thr == parsel[1].threads_mode
            sp == IF Truthy(seq) THEN Div(par, seq) ELSE NaN
            effGuard == NotNa(thr) /\ Gt(thr, Num(0))
            eff == IF effGuard THEN Div(sp, thr) ELSE NaN
            amd == IF Gt(thr, Num(1)) /\ Gt(sp, Num(0)) THEN Amdahl(thr, sp) ELSE NaN
        IN  IF (Truthy(seq) /\ PyDivRaises(seq)) \/ (effGuard /\ PyDivRaises(thr))
            THEN [exc |-> "ZeroDivisionError", df |-> << >>]
            ELSE [exc |-> "",
                  df |-> <<[speedup_fps_inst_median |-> sp,
                            threads_mode |-> thr,
                            efficiency |-> eff,
                            amdahl_serial_fraction_est |-> amd]>>]

----------------------------------------------------------------------------------------------------------------------------------------
(* Specification SpecSummarize: summarize_one_run applied to one raw table *)

Variants == {"sequential", "parallel"}

TimeVals == {NaN, Num(0), Num(1), Num(2)}
InfTimeVals == {NegInf, Inf}
FpsVals == {NaN, Inf, Num(0), Num(30), Num(90)}

\* The column sets a raw file may have
ColumnSets == {AllColumns, AllColumns \ {"time_s"}, {"fps_inst"}}

RawRow(cols, t, f) ==
    [c \in cols |-> [time_s |-> t, fps_inst |-> f, n |-> Num(100),
                     threads |-> Num(4), palette |-> "Neon "][c]]

\* every elapsed time with every FPS, and an infinite elapsed time with FPS 30
RawRows(cols) ==
    {RawRow(cols, t, f) : t \in TimeVals, f \in FpsVals}
        \cup {RawRow(cols, t, Num(30)) : t \in InfTimeVals}

RawTables(cols, maxlen) == UNION {[1..k -> RawRows(cols)] : k \in 0..maxlen}

Unreadable(path) == [path |-> path, readable |-> FALSE, cause |-> "ParserError", rows |-> << >>]
Readable(path, rows) == [path |-> path, readable |-> TRUE, cause |-> "", rows |-> rows]

NoSummary == [ok |-> FALSE, path |-> <<"", "">>, error |-> <<"not_run">>]
NoFile == Unreadable(<<"", "">>)

NoCall == csv = NoFile /\ variant = "" /\ summary = NoSummary /\ gen = 0
NoInput == seq_csvs = << >> /\ par_csvs = << >>
NoRuns == seq_runs = << >> /\ par_runs = << >> /\ all_runs = << >>
NoAggs == agg_pal = << >> /\ agg_var = << >>
NoOutput == sp_var = << >> /\ exc = "" /\ console = << >> /\ written = << >>

InitSummarize ==
    /\ pc = "start"
    /\ gen = 0
    /\ variant = "sequential"
    /\ \E cols \in ColumnSets :
         \E rows \in RawTables(cols, MaxRows) :
            csv \in {Readable(<<SEQ_DIR, "c.csv">>, rows), Unreadable(<<SEQ_DIR, "c.csv">>)}
    /\ summary = NoSummary
    /\ NoInput /\ NoRuns /\ NoAggs /\ NoOutput

\* one call of summarize_one_run(path, variant)
SummarizeOneRun ==
    /\ pc = "start"
    /\ summary' = summarize_one_run(csv, variant)
    /\ pc' = "done"
    /\ UNCHANGED <<csv, variant, gen, inputVars, runVars, aggVars, outVars>>

\* the environment stores the warmup-trimmed copy of the table (lines 34-40 applied
\* to it) as the next input, on which summarize_one_run is run again
ResubmitTrimmed ==
    /\ pc = "done"
    /\ gen < MaxGen
    /\ csv.readable
    /\ csv' = [csv EXCEPT !.rows = WarmupTrim(EnsureColumns(csv.rows))]
    /\ gen' = gen + 1
    /\ pc' = "start"
    /\ summary' = NoSummary
    /\ UNCHANGED <<variant, inputVars, runVars, aggVars, outVars>>

NextSummarize == SummarizeOneRun \/ ResubmitTrimmed

SpecSummarize == InitSummarize /\ [][NextSummarize]_vars

----------------------------------------------------------------------------
(* main, one action per call it makes *)

\* lines 199-205: the files are found and counted
FindCsvs ==
    /\ pc = "main"
    /\ console' = console \o <<[line |-> "Buscando", seq |-> Len(seq_csvs),
                                par |-> Len(par_csvs)]>>
    /\ pc' = "found"
    /\ UNCHANGED <<callVars, inputVars, runVars, aggVars, sp_var, exc, written>>

\* line 207
CollectSequential ==
    /\ pc = "found"
    /\ seq_runs' = summarize_many(seq_csvs, "sequential")
    /\ console' = console \o summarize_many_prints(seq_csvs, "sequential")
    /\ pc' = "seq_done"
    /\ UNCHANGED <<callVars, inputVars, par_runs, all_runs, aggVars, sp_var, exc, written>>

\* line 208
CollectParallel ==
    /\ pc = "seq_done"
    /\ par_runs' = summarize_many(par_csvs, "parallel")
    /\ console' = console \o summarize_many_prints(par_csvs, "parallel")
    /\ pc' = "par_done"
    /\ UNCHANGED <<callVars, inputVars, seq_runs, all_runs, aggVars, sp_var, exc, written>>

\* lines 209-215: the run tables are concatenated; main returns when there is no run
Concat ==
    /\ pc = "par_done"
    /\ all_runs' = seq_runs \o par_runs
    /\ IF all_runs' = << >>
       THEN /\ console' = console \o <<[line |-> "No encontre corridas validas"]>>
            /\ written' = written
            /\ pc' = "exit"
       ELSE /\ console' = console \o <<[line |-> "Guardado", rows |-> Len(all_runs')]>>
            /\ written' = written \o <<[file |-> "run_summaries.csv", rows |-> Len(all_runs')]>>
            /\ pc' = "runs_saved"
    /\ UNCHANGED <<callVars, inputVars, seq_runs, par_runs, aggVars, sp_var, exc>>

\* lines 217-218
AggregatePalette ==
    /\ pc = "runs_saved"
    /\ agg_pal' = aggregate_by_variant_palette(all_runs)
    /\ written' = written \o <<[file |-> "variant_palette_summary.csv", rows |-> Len(agg_pal')]>>
    /\ pc' = "pal_done"
    /\ UNCHANGED <<callVars, inputVars, runVars, agg_var, sp_var, exc, console>>

\* lines 222-223
AggregateVariant ==
    /\ pc = "pal_done"
    /\ agg_var' = aggregate_by_variant(all_runs)
    /\ written' = written \o <<[file |-> "variant_summary.csv", rows |-> Len(agg_var')]>>
    /\ pc' = "var_done"
    /\ UNCHANGED <<callVars, inputVars, runVars, agg_pal, sp_var, exc, console>>

\* lines 228-229: an exception of compute_speedup_by_variant ends main
ComputeSpeedup ==
    /\ pc = "var_done"
    /\ LET r == compute_speedup_by_variant(agg_var)
       IN  /\ exc' = r.exc
           /\ sp_var' = r.df
           /\ IF r.exc = ""
              THEN /\ written' = written \o <<[file |-> "speedup_by_variant.csv",
                                               rows |-> Len(r.df)]>>
                   /\ pc' = "computed"
              ELSE /\ written' = written
                   /\ pc' = "crashed"
    /\ UNCHANGED <<callVars, inputVars, runVars, aggVars, console>>

\* int(thr) of line 235 raises OverflowError on an infinite thread count
PyIntRaises(thr) == thr \in {Inf, NegInf}

\* lines 230-238: the speedup line is printed only when the table has a row, then
\* the output directory and the closing line; an exception of line 235 ends main
Report ==
    /\ pc = "computed"
    /\ IF sp_var # << >> /\ PyIntRaises(sp_var[1].threads_mode)
       THEN /\ exc' = "OverflowError"
            /\ console' = console
            /\ pc' = "report_crashed"
       ELSE /\ exc' = exc
            /\ console' = console
                 \o (IF sp_var # << >>
                     THEN <<[line |-> "Speedup global",
                             s |-> sp_var[1].speedup_fps_inst_median,
                             thr |-> sp_var[1].threads_mode,
                             eff |-> sp_var[1].efficiency,
                             amd |-> sp_var[1].amdahl_serial_fraction_est]>>
                     ELSE << >>)
                 \o <<[line |-> "Graficas y CSVs en", dir |-> OUT_DIR],
                      [line |-> "Listo"]>>
            /\ pc' = "exit"
    /\ UNCHANGED <<callVars, inputVars, runVars, aggVars, sp_var, written>>

----------------------------------------------------------------------------
(* Specification Spec: main over the CSV files of the two directories *)

\* the item count recorded by a run of th threads
ItemCount(th) == IF th = NaN THEN NaN ELSE IF th = Num(2) THEN Num(200) ELSE Num(100)

\* a recorded run: one sample inside the warmup window, then one at t0 + 1.0
RunTable(f, th, pal) ==
    <<[time_s |-> Num(0), fps_inst |-> f, n |-> ItemCount(th), threads |-> th, palette |-> pal],
      [time_s |-> Num(1), fps_inst |-> f, n |-> ItemCount(th), threads |-> th, palette |-> pal]>>

\* what a file may hold: nothing readable, or a run table (with and without a
\* palette column value); a run whose FPS is 0 is empty after cleaning
FileContents(path) ==
    {Unreadable(path)}
    \cup {Readable(path, RunTable(f, th, NoPalette)) :
            f \in {Num(0), Num(30), Num(90)}, th \in {Num(2), Num(4)}}
    \cup {Readable(path, RunTable(Num(30), NaN, "Neon "))}

RECURSIVE Listings(_, _, _)
\* find_csvs (line 14): the listings of a directory, sorted by name, that hold at
\* most k files, all named FileNames[i] or later
Listings(dir, i, k) ==
    IF i > Len(FileNames) \/ k = 0 THEN {<< >>}
    ELSE Listings(dir, i + 1, k)
         \cup {<<c>> \o rest : c \in FileContents(<<dir, FileNames[i]>>),
                               rest \in Listings(dir, i + 1, k - 1)}

Init ==
    /\ pc = "main"
    /\ seq_csvs \in Listings(SEQ_DIR, 1, MaxFiles)
    /\ par_csvs \in Listings(PAR_DIR, 1, MaxFiles - Len(seq_csvs))
    /\ NoCall /\ NoRuns /\ NoAggs /\ NoOutput

Next ==
    \/ FindCsvs
    \/ CollectSequential
    \/ CollectParallel
    \/ Concat
    \/ AggregatePalette
    \/ AggregateVariant
    \/ ComputeSpeedup
    \/ Report

Spec == Init /\ [][Next]_vars

----------------------------------------------------------------------------
(* Specification SpecAggregate: the two aggregators applied to a run table *)

\* the RunSummary of a one-sample run, as summarize_one_run builds it
RunSummaryOf(var, pal, f, th) ==
    summarize_one_run(
        Readable(<<IF var = "sequential" THEN SEQ_DIR ELSE PAR_DIR, "c.csv">>,
                 RunTable(f, th, pal)),
        var)

\* the median FPS and thread count of the runs of the model
RunShapes == {<<Num(30), Num(2)>>, <<Num(30), Num(4)>>, <<Num(90), NaN>>}

RunSummaries ==
    {RunSummaryOf(k[1], k[2], r[1], r[2]) :
        k \in {<<"sequential", "Neon ">>, <<"parallel", "Neon ">>, <<"parallel", "ocean">>},
        r \in RunShapes}

\* the file names of the runs of a run table, in order
RunNames == <<"run1.csv", "run2.csv", "run3.csv", "run4.csv", "run5.csv">>

InitAggregate ==
    /\ pc = "runs_saved"
    /\ \E t \in UNION {[1..k -> RunSummaries] : k \in 0..MaxRuns} :
         all_runs = [i \in 1..Len(t) |->
                        [t[i] EXCEPT !.path = <<@[1], RunNames[i]>>, !.file = RunNames[i]]]
    /\ seq_runs = << >> /\ par_runs = << >>
    /\ NoCall /\ NoInput /\ NoAggs /\ NoOutput

NextAggregate == AggregatePalette \/ AggregateVariant

SpecAggregate == InitAggregate /\ [][NextAggregate]_vars

----------------------------------------------------------------------------
(* Specification SpecCompare: compute_speedup_by_variant applied to a       *)
(* variant-only aggregate, and main's report of it                          *)

\* a row of a variant-only aggregate
AggVarRow(var, med, thr) ==
    [c \in {"variant"} \cup Metrics \cup {"runs", "threads_mode"} |->
        IF c = "variant" THEN var
        ELSE IF c = "fps_inst_median" THEN med
        ELSE IF c = "runs" THEN 1
        ELSE IF c = "threads_mode" THEN thr
        ELSE NaN]

MedianVals == {NaN, Num(-30), Num(0), Num(30), Num(90), Num(120), Inf}
ThreadVals == {NaN, Num(-1), Num(0), Num(1), Num(4), Inf}

\* no row, or one row, for the variant
AggVarRows(var) ==
    {<< >>} \cup {<<AggVarRow(var, m, t)>> : m \in MedianVals, t \in ThreadVals}

InitCompare ==
    /\ pc = "var_done"
    /\ \E g \in {<< >>, <<AggVarRow("gpu", Num(30), Num(4))>>} :
         \E p \in AggVarRows("parallel") :
            \E q \in AggVarRows("sequential") :
                agg_var = g \o p \o q
    /\ agg_pal = << >>
    /\ NoCall /\ NoInput /\ NoRuns /\ NoOutput

NextCompare == ComputeSpeedup \/ Report

SpecCompare == InitCompare /\ [][NextCompare]_vars

----------------
(* Claims about summarize_one_run, checked under SpecSummarize *)

\* the raw table with every expected column
RawTable == EnsureColumns(csv.rows)

HasTime(T) == \E i \in 1..Len(T) : NotNa(T[i].time_s)

\* the least elapsed time present in T (T has one)
MinTime(T) ==
    CHOOSE t \in {T[i].time_s : i \in {j \in 1..Len(T) : NotNa(T[j].time_s)}} :
        \A i \in 1..Len(T) : NotNa(T[i].time_s) => ~Lt(T[i].time_s, t)

\* instantaneous FPS that is present, finite and > 0
ValidFps(f) == IsFinite(f) /\ f[1] > 0

\* row i is outside the warmup window: its elapsed time is >= t0 + 1.0, or the
\* table has no elapsed time at all
AfterWarmup(T, i) ==
    ~HasTime(T) \/ Ge(T[i].time_s, Add(MinTime(T), Num(WARMUP_SECONDS)))

\* row i is not inside the warmup window: it is not the case that its elapsed
\* time is < t0 + 1.0 (so a row with a missing elapsed time qualifies)
NotInWarmup(T, i) ==
    ~HasTime(T) \/ ~Lt(T[i].time_s, Add(MinTime(T), Num(WARMUP_SECONDS)))

Survivors(T) == {i \in 1..Len(T) : ValidFps(T[i].fps_inst) /\ AfterWarmup(T, i)}

Summarized == pc = "done" /\ csv.readable

\* C5 as stated: every raw table with at least one row whose instantaneous FPS is
\* > 0 (and finite) yields a RunSummary, with rows <= the input row count and
\* rows < it when a row was removed.
C5_Original ==
    (Summarized /\ \E i \in 1..Len(RawTable) : ValidFps(RawTable[i].fps_inst))
        => /\ summary.ok
           /\ summary.rows <= Len(RawTable)
           /\ (Survivors(RawTable) # 1..Len(RawTable) => summary.rows < Len(RawTable))

\* C5 amended: every raw table with at least one row whose instantaneous FPS is
\* finite and > 0 and which lies outside the warmup window (elapsed time
\* >= t0 + 1.0, or no elapsed time in the table at all) yields a RunSummary, with
\* rows <= the input row count and rows < it when warmup trimming or FPS
\* filtering removes at least one row.
C5_RowsBounded ==
    (Summarized /\ Survivors(RawTable) # {})
        => /\ summary.ok
           /\ summary.rows <= Len(RawTable)
           /\ (Survivors(RawTable) # 1..Len(RawTable) => summary.rows < Len(RawTable))

\* a RunSummary of one row out of three, one lost to the warmup trim and one to
\* the FPS filter
C5_Witness ==
    /\ Summarized
    /\ summary.ok
    /\ Len(RawTable) = 3
    /\ summary.rows = 1
    /\ \E i \in 1..3 : ValidFps(RawTable[i].fps_inst) /\ ~AfterWarmup(RawTable, i)
    /\ \E i \in 1..3 : ~ValidFps(RawTable[i].fps_inst) /\ AfterWarmup(RawTable, i)

\* the input is the warmup-trimmed copy of a table
AlreadyTrimmed == gen >= 1 /\ Summarized

ValidRows(T) == {i \in 1..Len(T) : ValidFps(T[i].fps_inst)}

\* C6 as stated: on an already-trimmed table the warmup trim removes no further
\* row, so rows is the number of its rows with finite instantaneous FPS > 0.
C6_Original ==
    AlreadyTrimmed =>
        IF ValidRows(RawTable) = {} THEN ~summary.ok
        ELSE summary.ok /\ summary.rows = Cardinality(ValidRows(RawTable))

\* C6 amended: on an already-trimmed table summarize_one_run trims again, relative
\* to that table's own least elapsed time t0': rows is the number of its rows with
\* elapsed time >= t0' + 1.0 and finite instantaneous FPS > 0 (empty_after_clean
\* when there is none), which can be fewer than its rows with such an FPS.
C6_TrimsAgain ==
    AlreadyTrimmed =>
        /\ summary.ok <=> Survivors(RawTable) # {}
        /\ summary.ok => summary.rows = Cardinality(Survivors(RawTable))

\* an already-trimmed table, all of whose rows have a valid FPS, loses a row to
\* the second warmup trim
C6_Witness ==
    /\ AlreadyTrimmed
    /\ summary.ok
    /\ Len(RawTable) >= 2
    /\ ValidRows(RawTable) = 1..Len(RawTable)
    /\ summary.rows < Len(RawTable)

\* C10 as stated: cleaning keeps exactly the rows that are not `elapsed time <
\* t0 + 1.0` (a row with a missing elapsed time is not trimmed) and whose
\* instantaneous FPS is finite and > 0; rows is their number, and the result is
\* empty_after_clean exactly when there is none.
C10_Original ==
    Summarized =>
        LET kept == {i \in 1..Len(RawTable) :
                        ValidFps(RawTable[i].fps_inst) /\ NotInWarmup(RawTable, i)}
        IN  /\ summary.ok <=> kept # {}
            /\ summary.ok => summary.rows = Cardinality(kept)

----------------------------------------------------------------------------
(* Claims about the aggregators, checked under SpecAggregate *)

Members(df, keys, key) == {i \in 1..Len(df) : KeyOf(df[i], keys) = key}

\* m is the median of column col over the rows M of df: the mean of the lower and
\* the upper middle of the values present, undefined when none is
IsMedianOf(m, df, M, col) ==
    LET V == {i \in M : NotNa(df[i][col])}
        k == Cardinality(V)
        Below(i) == Cardinality({j \in V : Lt(df[j][col], df[i][col])})
        AtMost(i) == Cardinality({j \in V : ~Lt(df[i][col], df[j][col])})
    IN  IF k = 0 THEN m = NaN
        ELSE /\ IsFinite(m)
             /\ \E lo, hi \in V :
                  /\ Below(lo) <= (k - 1) \div 2 /\ (k - 1) \div 2 < AtMost(lo)
                  /\ Below(hi) <= k \div 2 /\ k \div 2 < AtMost(hi)
                  /\ LET a == df[lo][col]
                         b == df[hi][col]
                     IN  2 * m[1] * a[2] * b[2] = (a[1] * b[2] + b[1] * a[2]) * m[2]

\* how often the thread count of row i occurs among the rows V, and where first
ThreadCount(df, V, i) == Cardinality({j \in V : df[j].threads = df[i].threads})
ThreadFirst(df, V, i) ==
    CHOOSE j \in V : df[j].threads = df[i].threads
                     /\ \A h \in V : df[h].threads = df[i].threads => j <= h

\* t is the most frequent thread count present among the rows M of df, the one
\* met first among those tied; undefined when none is present
IsModeOf(t, df, M) ==
    LET V == {i \in M : NotNa(df[i].threads)}
    IN  IF V = {} THEN t = NaN
        ELSE \E i \in V :
                /\ t = df[i].threads
                /\ \A j \in V :
                     /\ ThreadCount(df, V, j) <= ThreadCount(df, V, i)
                     /\ (ThreadCount(df, V, j) = ThreadCount(df, V, i)
                            => ThreadFirst(df, V, i) <= ThreadFirst(df, V, j))

\* agg is the aggregate of df over `keys`
IsAggregateOf(agg, df, keys) ==
    LET present == {KeyOf(df[i], keys) : i \in 1..Len(df)}
    IN  /\ df = << >> => agg = << >>
        /\ Len(agg) = Cardinality(present)
        /\ {KeyOf(agg[j], keys) : j \in 1..Len(agg)} = present
        /\ \A j \in 1..Len(agg) :
             LET M == Members(df, keys, KeyOf(agg[j], keys))
             IN  /\ agg[j].runs = Cardinality(M)
                 /\ \A m \in Metrics : IsMedianOf(agg[j][m], df, M, m)
                 /\ IsModeOf(agg[j].threads_mode, df, M)

PaletteAggregated == pc \in {"pal_done", "var_done"}
VariantAggregated == pc = "var_done"

\* C3: each aggregate has exactly one row per key combination present in the run
\* table; in it every metric is the median of that metric over the member runs,
\* runs is the number of members and threads_mode the most frequent thread count
\* present, the first met among those tied (undefined when all are missing); an
\* empty run table gives an empty aggregate.
C3_Aggregates ==
    /\ PaletteAggregated => IsAggregateOf(agg_pal, all_runs, <<"variant", "palette">>)
    /\ VariantAggregated => IsAggregateOf(agg_var, all_runs, <<"variant">>)

\* a variant of three runs in two palettes, whose median FPS 30 is not its mean
\* and whose thread counts 4, 2, missing are tied, the first met being 4
C3_Witness ==
    /\ VariantAggregated
    /\ Len(all_runs) = 3
    /\ Len(agg_var) = 1
    /\ agg_var[1].runs = 3
    /\ agg_var[1].fps_inst_median = Num(30)
    /\ all_runs[3].fps_inst_median = Num(90)
    /\ all_runs[1].threads = Num(4)
    /\ all_runs[2].threads = Num(2)
    /\ all_runs[3].threads = NaN
    /\ agg_var[1].threads_mode = Num(4)
    /\ Len(agg_pal) = 2

Permuted(df, f) == [i \in 1..Len(df) |-> df[f[i]]]

WithoutMode(agg) ==
    [j \in 1..Len(agg) |-> [c \in DOMAIN agg[j] \ {"threads_mode"} |-> agg[j][c]]]

\* C4 as stated: every permutation of the run table gives the same two aggregates,
\* threads_mode included.
C4_Original ==
    VariantAggregated =>
        \A f \in Permutations(1..Len(all_runs)) :
            /\ aggregate_by_variant_palette(Permuted(all_runs, f)) = agg_pal
            /\ aggregate_by_variant(Permuted(all_runs, f)) = agg_var

\* among the member rows M of df one thread count present is more frequent than
\* every other, or none is present
UniqueMode(df, M) ==
    LET V == {i \in M : NotNa(df[i].threads)}
    IN  \A i, j \in V :
            (\A h \in V : ThreadCount(df, V, h) <= ThreadCount(df, V, i)
                          /\ ThreadCount(df, V, h) <= ThreadCount(df, V, j))
                => df[i].threads = df[j].threads

SameButTiedModes(agg2, agg, df, keys) ==
    /\ WithoutMode(agg2) = WithoutMode(agg)
    /\ \A j \in 1..Len(agg) :
         UniqueMode(df, Members(df, keys, KeyOf(agg[j], keys)))
            => agg2[j].threads_mode = agg[j].threads_mode

\* C4 amended: every permutation of the run table gives the same groups, the same
\* medians and the same run counts in both aggregates, and the same threads_mode
\* in every group in which one thread count is more frequent than every other (or
\* none is present); among thread counts tied for most frequent the one met first
\* in the given order is taken, so there threads_mode may differ.
C4_OrderInvariant ==
    VariantAggregated =>
        \A f \in Permutations(1..Len(all_runs)) :
            /\ SameButTiedModes(aggregate_by_variant_palette(Permuted(all_runs, f)),
                                agg_pal, all_runs, <<"variant", "palette">>)
            /\ SameButTiedModes(aggregate_by_variant(Permuted(all_runs, f)),
                                agg_var, all_runs, <<"variant">>)

\* three runs of one variant with 30, 90, 30 FPS and the thread counts 2 and 4
\* tied: reversing them changes threads_mode from 2 to 4, and nothing else
C4_Witness ==
    /\ VariantAggregated
    /\ Len(all_runs) = 3
    /\ Len(agg_var) = 1
    /\ all_runs[1].fps_inst_median = Num(30)
    /\ all_runs[2].fps_inst_median = Num(90)
    /\ all_runs[3].fps_inst_median = Num(30)
    /\ all_runs[1].threads = Num(2)
    /\ all_runs[2].threads = NaN
    /\ all_runs[3].threads = Num(4)
    /\ agg_var[1].fps_inst_median = Num(30)
    /\ agg_var[1].threads_mode = Num(2)
    /\ aggregate_by_variant(Permuted(all_runs, <<3, 2, 1>>))[1].threads_mode = Num(4)

----------------------------------------------------------------------------
(* Claims about compute_speedup_by_variant, checked under SpecCompare *)

Computed == pc \in {"computed", "crashed", "exit"}

VariantKeys == {agg_var[i].variant : i \in 1..Len(agg_var)}
ExactlyBoth == VariantKeys = {"sequential", "parallel"}

RowOf(var) == agg_var[CHOOSE i \in 1..Len(agg_var) : agg_var[i].variant = var]
SeqMedian == RowOf("sequential").fps_inst_median
ParMedian == RowOf("parallel").fps_inst_median
ParThreads == RowOf("parallel").threads_mode

Positive(x) == IsFinite(x) /\ x[1] > 0

\* C1: with exactly the keys sequential and parallel the result is one record with
\* speedup = parallel median / sequential median, threads_mode = the parallel
\* group's, efficiency = speedup / threads_mode (threads_mode > 0) and Amdahl
\* estimate = (threads/speedup - 1)/(threads - 1) (threads > 1, speedup > 0);
\* medians 30 and 90 with 4 threads give 3, 3/4 and 1/9, speedup 4 gives the
\* estimate 0 and speedup 1 gives 1.
C1_Speedup ==
    (Computed /\ ExactlyBoth) =>
        /\ exc = ""
        /\ Len(sp_var) = 1
        /\ LET sp == sp_var[1].speedup_fps_inst_median
               eff == sp_var[1].efficiency
               amd == sp_var[1].amdahl_serial_fraction_est
               thr == ParThreads
           IN  /\ sp_var[1].threads_mode = thr
               /\ (IsFinite(ParMedian) /\ IsFinite(SeqMedian) /\ SeqMedian[1] # 0)
                    => /\ IsFinite(sp)
                       /\ sp[1] * SeqMedian[1] * ParMedian[2]
                            = ParMedian[1] * sp[2] * SeqMedian[2]
               /\ (IsFinite(sp) /\ Positive(thr))
                    => /\ IsFinite(eff)
                       /\ eff[1] * thr[1] * sp[2] = sp[1] * eff[2] * thr[2]
               /\ (Gt(thr, Num(1)) /\ IsFinite(thr) /\ Positive(sp))
                    => /\ IsFinite(amd)
                       /\ amd[1] * (thr[1] - thr[2]) * sp[1]
                            = amd[2] * (thr[1] * sp[2] - sp[1] * thr[2])
               /\ (SeqMedian = Num(30) /\ ParMedian = Num(90) /\ thr = Num(4))
                    => sp = <<3, 1>> /\ eff = <<3, 4>> /\ amd = <<1, 9>>
               /\ (sp = Num(4) /\ thr = Num(4)) => amd = Num(0)
               /\ (sp = Num(1) /\ thr = Num(4)) => amd = Num(1)

\* medians 30 and 90 with 4 threads: speedup 3, efficiency 3/4, estimate 1/9
C1_Witness ==
    /\ pc = "computed"
    /\ ExactlyBoth
    /\ SeqMedian = Num(30) /\ ParMedian = Num(90) /\ ParThreads = Num(4)
    /\ sp_var = <<[speedup_fps_inst_median |-> <<3, 1>>, threads_mode |-> <<4, 1>>,
                   efficiency |-> <<3, 4>>, amdahl_serial_fraction_est |-> <<1, 9>>]>>

PrintedSpeedup == \E i \in 1..Len(console) : console[i].line = "Speedup global"

\* C2: when the variant keys are not exactly sequential and parallel the result is
\* the empty table and nothing is raised; the table has a row only when both
\* variants have a group of at least one run, and main prints no speedup line for
\* an empty table.
C2_Undefined ==
    /\ (Computed /\ ~ExactlyBoth) => (exc = "" /\ sp_var = << >>)
    /\ (Computed /\ sp_var # << >>)
            => \A v \in {"sequential", "parallel"} :
                    \E i \in 1..Len(agg_var) : agg_var[i].variant = v /\ agg_var[i].runs >= 1
    /\ (pc = "exit" /\ sp_var = << >>) => ~PrintedSpeedup

\* a third key beside the two: the empty table, and main ends without the line
C2_Witness ==
    /\ pc = "exit"
    /\ VariantKeys = {"gpu", "sequential", "parallel"}
    /\ sp_var = << >>
    /\ exc = ""
    /\ console = <<[line |-> "Graficas y CSVs en", dir |-> "analysis_output"],
                 [line |-> "Listo"]>>

\* C9 as stated: with exactly the two keys nothing is raised and each derived field
\* is undefined on its own: speedup when the sequential median is zero, negative
\* or missing; efficiency when the thread count is missing or <= 0; the Amdahl
\* estimate when the thread count is <= 1 or missing or the speedup is <= 0 or
\* undefined; a field whose own inputs are valid is defined.
C9_Original ==
    (Computed /\ ExactlyBoth) =>
        /\ exc = ""
        /\ Len(sp_var) = 1
        /\ LET sp == sp_var[1].speedup_fps_inst_median
               eff == sp_var[1].efficiency
               amd == sp_var[1].amdahl_serial_fraction_est
               thr == ParThreads
           IN  /\ ~Gt(SeqMedian, Num(0)) => sp = NaN
               /\ (Positive(SeqMedian) /\ IsFinite(ParMedian)) => IsFinite(sp)
               /\ ~Gt(thr, Num(0)) => eff = NaN
               /\ (Positive(thr) /\ IsFinite(sp)) => IsFinite(eff)
               /\ (~Gt(thr, Num(1)) \/ ~Gt(sp, Num(0))) => amd = NaN
               /\ (Gt(thr, Num(1)) /\ IsFinite(thr) /\ Positive(sp)) => IsFinite(amd)

----------------------------------------------------------------------------
(* Claims about summarize_many and main, checked under Spec *)

\* the file is readable and none of its instantaneous-FPS values is > 0
NoPositiveFps(f) ==
    f.readable /\ \A i \in 1..Len(f.rows) : ~Gt(EnsureColumns(f.rows)[i].fps_inst, Num(0))

\* the file is summarized, not skipped
Good(f) == f.readable /\ Survivors(EnsureColumns(f.rows)) # {}

GoodCount(csvs) == Cardinality({i \in 1..Len(csvs) : Good(csvs[i])})

CsvsOf(var) == IF var = "sequential" THEN seq_csvs ELSE par_csvs

RECURSIVE SumRuns(_, _)
\* the run counts of the rows of agg for the variant, added up
SumRuns(agg, var) ==
    IF agg = << >> THEN 0
    ELSE (IF Head(agg).variant = var THEN Head(agg).runs ELSE 0) + SumRuns(Tail(agg), var)

Collected == pc \notin {"main", "found", "seq_done"}

\* C7: a table none of whose instantaneous-FPS values is > 0 is skipped as
\* empty_after_clean and is in no run table; a variant whose runs were all
\* skipped has no row in either aggregate, and the run counts of a variant add up
\* to the number of its runs that were not skipped.
C7_SkippedAbsent ==
    /\ \A var \in Variants : \A i \in 1..Len(CsvsOf(var)) :
         LET f == CsvsOf(var)[i]
         IN  NoPositiveFps(f) =>
                /\ summarize_one_run(f, var)
                     = [ok |-> FALSE, path |-> f.path, error |-> <<"empty_after_clean">>]
                /\ \A k \in 1..Len(all_runs) : all_runs[k].path # f.path
                /\ \A k \in 1..Len(seq_runs) : seq_runs[k].path # f.path
                /\ \A k \in 1..Len(par_runs) : par_runs[k].path # f.path
    /\ Collected =>
         \A var \in Variants :
            /\ pc \in {"pal_done", "var_done", "computed", "exit"}
                 => /\ SumRuns(agg_pal, var) = GoodCount(CsvsOf(var))
                    /\ \A j \in 1..Len(agg_pal) : agg_pal[j].runs >= 1
            /\ pc \in {"var_done", "computed", "exit"}
                 => /\ SumRuns(agg_var, var) = GoodCount(CsvsOf(var))
                    /\ \A j \in 1..Len(agg_var) : agg_var[j].runs >= 1

\* the only sequential file has FPS 0 throughout; two parallel runs are
\* summarized: both aggregates have parallel rows only
C7_Witness ==
    /\ pc = "var_done"
    /\ Len(seq_csvs) = 1
    /\ NoPositiveFps(seq_csvs[1])
    /\ seq_csvs[1].rows # << >>
    /\ seq_runs = << >>
    /\ Len(par_runs) = 2
    /\ Len(agg_var) = 1
    /\ agg_var[1].variant = "parallel"
    /\ agg_var[1].runs = 2
    /\ \A j \in 1..Len(agg_pal) : agg_pal[j].variant = "parallel"

\* C8 as stated: summarize_many summarizes every input, failures included, and
\* hands back both the RunSummaries, in input order, and the skipped entries, each
\* with its source and its reason; every input is in exactly one of the two.
C8_Original ==
    pc = "seq_done" =>
        LET results == [i \in 1..Len(seq_csvs) |-> summarize_one_run(seq_csvs[i], "sequential")]
            ok == {i \in 1..Len(seq_csvs) : results[i].ok}
        IN  /\ Len(seq_runs) = Cardinality(ok)
            /\ \A i \in ok : \E k \in 1..Len(seq_runs) :
                    /\ seq_runs[k] = results[i]
                    /\ k = Cardinality({j \in ok : j <= i})
            /\ \A i \in 1..Len(seq_csvs) \ ok :
                    /\ \A k \in 1..Len(seq_runs) : seq_runs[k].path # results[i].path
                    /\ \E h \in 1..Len(console) :
                         /\ console[h].line = "Ignorando"
                         /\ \E k \in 1..Len(console[h].files) :
                              /\ console[h].files[k] = Basename(results[i].path)
                              /\ "reasons" \in DOMAIN console[h]
                              /\ console[h].reasons[k] = results[i].error

====
